---- MODULE Spec2Model ----
(***************************************************************************)
(* Watch-tracker (src/app.js): a React client over a managed document      *)
(* store.  The model has the store's collections, each client's React      *)
(* state, and the calls that are in flight between a client and the store. *)
(* Every await of the source is a step boundary: the synchronous part of a *)
(* handler is one action, each resolution or rejection of an awaited store *)
(* call is another.                                                        *)
(***************************************************************************)
EXTENDS Integers, Sequences, FiniteSets, TLC

\* ------------------------------------------------------------------ bounds
\* server timestamps the store hands out in one run
MaxClock == 3
\* social calls (send / accept / decline) that are in flight at once
MaxInflight == 2
\* clock ticks that fall into one second
TicksPerSecond == 2

\* ------------------------------------------------------------- universes
Clients == {"c1", "c2"}
Uids == {1, 2, 3}
Null == 0

\* display names are sequences of characters
NameOf(u) ==
    CASE u = 1 -> <<"a", "b", "a">>
      [] u = 2 -> <<"b", "a", "b">>
      [] OTHER -> <<"a", "b", "b">>

\* String.prototype.toLowerCase over the letters in use
LowerChar(ch) == CASE ch = "A" -> "a" [] ch = "B" -> "b" [] OTHER -> ch

ToLowerCase(name) == [i \in 1..Len(name) |-> LowerChar(name[i])]

\* the Profile document handleSignup writes
ProfileDoc(uid, name) ==
    [id |-> uid, displayName |-> name, displayName_lower |-> ToLowerCase(name)]

EmailOf(u) == CASE u = 1 -> "e1" [] u = 2 -> "e2" [] OTHER -> "e3"

\* no handleSignup and no handleLogin is running
Idle == [pc |-> "idle", displayName |-> <<>>, email |-> "", uid |-> 0]

\* the account each client is signed in to in the social specification
SessionOf(c) == IF c = "c1" THEN 1 ELSE 2

\* --------------------------------------------------------------- variables
VARIABLES
    \* the store
    friendsDocs,      \* [uid -> set of FriendEdge docs [id, displayName]]
    requestDocs,      \* [uid -> set of FriendRequest docs [id, displayName, addedAt]]
    clock,            \* ticks of the server clock that serverTimestamp() has used
    \* a client's React state
    userId,           \* [client -> uid or Null]
    displayName,      \* [client -> name]
    friendRequests,   \* [client -> sequence of request docs, the last snapshot]
    friends,          \* [client -> sequence of friend docs, the last snapshot]
    friendsFeed,      \* [client -> sequence of feed entries]
    isFeedLoading,    \* [client -> BOOLEAN]
    \* calls in flight
    calls,            \* set of social store calls awaiting the store
    \* the store, continued
    watchedDocs,      \* [uid -> set of watchedList docs [id, media_type, addedAt]]
    \* the feed loader
    friendsPending,   \* [client -> BOOLEAN]: the friends listener has a snapshot to deliver
    feedRuns,         \* set of fetchFeeds executions suspended at their await
    fetches,          \* number of per-friend queries the store has been sent
    \* the media lists
    wishlistDocs,     \* [uid -> set of wishlist docs]
    listCalls,        \* set of addToList / removeFromList executions in flight
    error,            \* [client -> the message of the error modal, or NoError]
    \* accounts and sessions
    profiles,         \* set of Profile docs [id, displayName, displayName_lower]
    authUsers,        \* the auth provider's accounts [uid, email]
    currentUser,      \* [client -> uid or Null]: the auth SDK's signed-in user
    authEvent,        \* [client -> BOOLEAN]: the auth observer is to be called
    observing,        \* [client -> uid or Null]: the auth observer awaits this Profile
    signups,          \* [client -> the handleSignup or handleLogin execution, or idle]
    isLoading,        \* [client -> BOOLEAN]
    screen            \* [client -> "login", "signup" or "app"]

sessionVars == <<userId, displayName>>
socialVars == <<requestDocs, friendRequests, calls>>
feedVars == <<friends, friendsFeed, isFeedLoading, friendsPending, feedRuns, fetches>>

listVars == <<wishlistDocs, listCalls, error>>
accountVars == <<profiles, authUsers>>
authVars == <<currentUser, authEvent, observing, signups, isLoading, screen>>

vars == <<friendsDocs, clock, watchedDocs, sessionVars, socialVars, feedVars, listVars,
          accountVars, authVars>>

\* what the social functions leave alone
socialFrame == <<watchedDocs, sessionVars, friendRequests, feedVars, listVars,
                 accountVars, authVars>>

\* what the feed loader leaves alone
feedFrame == <<friendsDocs, clock, watchedDocs, displayName, requestDocs, calls, listVars,
               accountVars, authEvent, observing, signups, isLoading>>

\* what the list functions leave alone
listFrame == <<friendsDocs, sessionVars, socialVars, feedVars, accountVars, authVars>>

\* what signing up and the auth observer leave alone
authFrame == <<friendsDocs, clock, watchedDocs, requestDocs, calls, wishlistDocs, listCalls,
               friendRequests, friends, friendsFeed, isFeedLoading, feedRuns, fetches>>

NoError == <<>>

\* ------------------------------------------------------------ store model
\* serverTimestamp(): the store's clock at commit, as a Timestamp
Timestamp(t) == [seconds |-> t \div TicksPerSecond, nanoseconds |-> t % TicksPerSecond]

Now == Timestamp(clock)

\* setDoc(doc(coll, id), data): the document keyed id is replaced
SetDoc(coll, doc) == {d \in coll : d.id # doc.id} \cup {doc}

\* deleteDoc(doc(coll, id)): no error when the document is absent
DeleteDoc(coll, id) == {d \in coll : d.id # id}

Ids(coll) == {d.id : d \in coll}

\* String(n) of a non-negative integer: its decimal digits
Digits == <<"0", "1", "2", "3", "4", "5", "6", "7", "8", "9">>

RECURSIVE String(_)
String(n) == IF n < 10 THEN <<Digits[n + 1]>> ELSE String(n \div 10) \o <<Digits[(n % 10) + 1]>>

\* a snapshot's docs array: the collection in document-id order
RECURSIVE SortById(_)
SortById(coll) ==
    IF coll = {} THEN <<>>
    ELSE LET first == CHOOSE d \in coll : \A e \in coll : d.id <= e.id
         IN  <<first>> \o SortById(coll \ {first})

Range(s) == {s[i] : i \in 1..Len(s)}

\* ------------------------------------------------------- social functions
SendCall(c, t) ==
    [client |-> c, action |-> "send", userId |-> userId[c], id |-> t,
     displayName |-> displayName[c], requestName |-> <<>>]

RequestCall(c, request, action) ==
    [client |-> c, action |-> action, userId |-> userId[c], id |-> request.id,
     displayName |-> displayName[c], requestName |-> request.displayName]

\* sendFriendRequest(targetUser): targetUser is a row of userSearchResults,
\* which searchUsers filters to profiles other than the caller's
SendFriendRequest(c, t) ==
    /\ screen[c] = "app"
    /\ userId[c] # Null
    /\ t \in Uids \ {userId[c]}
    /\ Cardinality(calls) < MaxInflight
    /\ calls' = calls \cup {SendCall(c, t)}
    /\ UNCHANGED <<friendsDocs, requestDocs, clock, socialFrame>>

\* a send that adds a document instead of setting the one keyed by the sender
SendRequestsAdd(rd, w, ts) ==
    [rd EXCEPT ![w.id] = @ \cup {[id |-> w.userId, displayName |-> w.displayName,
                                  addedAt |-> ts]}]

\* the store applies the setDoc of sendFriendRequest
SendRequests(rd, w, ts) ==
    [rd EXCEPT ![w.id] = SetDoc(@, [id |-> w.userId, displayName |-> w.displayName,
                                    addedAt |-> ts])]

CommitSend(w) ==
    /\ w \in calls /\ w.action = "send"
    /\ clock < MaxClock
    /\ requestDocs' = SendRequests(requestDocs, w, Now)
    /\ clock' = clock + 1
    /\ calls' = calls \ {w}
    /\ UNCHANGED <<friendsDocs, socialFrame>>

\* handleFriendRequest(request, action): request is a row of friendRequests
HandleFriendRequest(c, request, action) ==
    /\ screen[c] = "app"
    /\ userId[c] # Null
    /\ request \in Range(friendRequests[c])
    /\ Cardinality(calls) < MaxInflight
    /\ calls' = calls \cup {RequestCall(c, request, action)}
    /\ UNCHANGED <<friendsDocs, requestDocs, clock, socialFrame>>

\* an accept batch that writes the accepter's edge only
AcceptFriendsOwnOnly(fd, w) ==
    [fd EXCEPT ![w.userId] = SetDoc(@, [id |-> w.id, displayName |-> w.requestName])]

\* the two batch.set of the accept batch
AcceptFriends(fd, w) ==
    LET own == [fd EXCEPT ![w.userId] =
                   SetDoc(@, [id |-> w.id, displayName |-> w.requestName])]
    IN  [own EXCEPT ![w.id] =
            SetDoc(@, [id |-> w.userId, displayName |-> w.displayName])]

\* an accept batch without its delete
AcceptRequestsKept(rd, w) == rd

\* an accept batch whose delete names the sender's collection
AcceptRequestsSwapped(rd, w) == [rd EXCEPT ![w.id] = DeleteDoc(@, w.userId)]

\* the batch.delete of the accept batch
AcceptRequests(rd, w) == [rd EXCEPT ![w.userId] = DeleteDoc(@, w.id)]

\* batch.commit(): the store applies the three writes as one
CommitAccept(w) ==
    /\ w \in calls /\ w.action = "accept"
    /\ friendsDocs' = AcceptFriends(friendsDocs, w)
    /\ requestDocs' = AcceptRequests(requestDocs, w)
    /\ calls' = calls \ {w}
    /\ UNCHANGED <<clock, socialFrame>>

\* a decline that empties the decliner's friendRequests
DeclineRequestsAll(rd, w) == [rd EXCEPT ![w.userId] = {}]

\* a decline that deletes the decliner's own request at the sender
DeclineRequestsOfSender(rd, w) == [rd EXCEPT ![w.id] = DeleteDoc(@, w.userId)]

\* the deleteDoc of the decline branch
DeclineRequests(rd, w) == [rd EXCEPT ![w.userId] = DeleteDoc(@, w.id)]

CommitDecline(w) ==
    /\ w \in calls /\ w.action \notin {"send", "accept"}
    /\ requestDocs' = DeclineRequests(requestDocs, w)
    /\ calls' = calls \ {w}
    /\ UNCHANGED <<friendsDocs, clock, socialFrame>>

\* the store call rejects (store unreachable): nothing is written
RejectCall(w) ==
    /\ w \in calls
    /\ calls' = calls \ {w}
    /\ UNCHANGED <<friendsDocs, requestDocs, clock, socialFrame>>

\* onSnapshot(collection(requestsPath)) delivers the current collection
RequestsSnapshot(c) ==
    /\ userId[c] # Null
    /\ friendRequests[c] # SortById(requestDocs[userId[c]])
    /\ friendRequests' = [friendRequests EXCEPT ![c] = SortById(requestDocs[userId[c]])]
    /\ UNCHANGED <<friendsDocs, requestDocs, clock, calls, watchedDocs, sessionVars, feedVars, listVars, accountVars, authVars>>


\* ------------------------------------------------------------ initial states
\* the React state as App constructs it, and nothing in flight
Constructed ==
    /\ friendRequests = [c \in Clients |-> <<>>]
    /\ friends = [c \in Clients |-> <<>>]
    /\ friendsFeed = [c \in Clients |-> <<>>]
    /\ isFeedLoading = [c \in Clients |-> FALSE]
    /\ isLoading = [c \in Clients |-> FALSE]
    /\ error = [c \in Clients |-> NoError]
    /\ calls = {}
    /\ feedRuns = {}
    /\ fetches = 0
    /\ listCalls = {}
    /\ signups = [c \in Clients |-> Idle]
    /\ observing = [c \in Clients |-> Null]
    /\ authEvent = [c \in Clients |-> FALSE]

\* the accounts 1..3 exist, and client c is signed in to account session[c]
\* (Null: to none) with the auth observer done
SignedIn(session) ==
    /\ authUsers = {[uid |-> u, email |-> EmailOf(u)] : u \in Uids}
    /\ profiles = {ProfileDoc(u, NameOf(u)) : u \in Uids}
    /\ currentUser = session
    /\ userId = session
    /\ displayName = [c \in Clients |-> IF session[c] = Null THEN <<>> ELSE NameOf(session[c])]
    /\ screen = [c \in Clients |-> IF session[c] = Null THEN "login" ELSE "app"]

OnlyFirst == [c \in Clients |-> IF c = "c1" THEN 1 ELSE Null]

\* ------------------------------------------------- social specification
\* Account 3 has no session here; the requests it sent before are in the store.
EarlierRequests(senders) ==
    {[id |-> s, displayName |-> NameOf(s), addedAt |-> Timestamp(0)] : s \in senders}

SocialInit ==
    /\ friendsDocs = [u \in Uids |-> {}]
    /\ \E to \in {{1}} :
          requestDocs = [u \in Uids |-> IF u \in to THEN EarlierRequests({3}) ELSE {}]
    /\ clock = 1
    /\ SignedIn([c \in Clients |-> SessionOf(c)])
    /\ Constructed
    /\ watchedDocs = [u \in Uids |-> {}]
    /\ wishlistDocs = [u \in Uids |-> {}]
    /\ friendsPending = [c \in Clients |-> FALSE]

SocialNext ==
    \/ \E c \in Clients, t \in Uids : SendFriendRequest(c, t)
    \/ \E c \in Clients : \E request \in Range(friendRequests[c]) :
          \E action \in {"accept", "decline"} : HandleFriendRequest(c, request, action)
    \/ \E w \in calls : CommitSend(w)
    \/ \E w \in calls : CommitAccept(w)
    \/ \E w \in calls : CommitDecline(w)
    \/ \E w \in calls : RejectCall(w)
    \/ \E c \in Clients : RequestsSnapshot(c)

SpecSocial == SocialInit /\ [][SocialNext]_vars

\* ------------------------------------------------------ social properties
Edge(a, b) == b \in Ids(friendsDocs[a])
Req(a, s) == s \in Ids(requestDocs[a])
Friends(a, b) == Edge(a, b) /\ Edge(b, a)

\* the call w leaves flight in this step
Resolves(w) == w \in calls /\ w \notin calls'

StoreUnchanged == friendsDocs' = friendsDocs /\ requestDocs' = requestDocs

\* the three effects of the accept batch of w, in the next state
AcceptEffects(w) ==
    /\ w.id \in Ids(friendsDocs'[w.userId])
    /\ w.userId \in Ids(friendsDocs'[w.id])
    /\ w.id \notin Ids(requestDocs'[w.userId])

AcceptAtomicStep ==
    \A w \in calls : (w.action = "accept" /\ Resolves(w)) =>
        (StoreUnchanged \/ AcceptEffects(w))

\* C1: an accept leaves the store with all three of its effects or with none;
\* no step of an accept applies one or two of them.
AcceptAtomic == [][AcceptAtomicStep]_vars

\* C1 witness: an accept batch has committed: both edges, the request gone,
\* while the accepter's snapshot still shows the request it accepted
AcceptCommitted ==
    \E c \in Clients : \E r \in Range(friendRequests[c]) :
        /\ Friends(userId[c], r.id)
        /\ ~Req(userId[c], r.id)

Symmetric == \A a \in Uids, b \in Uids : Edge(a, b) <=> Edge(b, a)

EdgesOnlyByAcceptStep ==
    friendsDocs' # friendsDocs =>
        \E w \in calls : w.action = "accept" /\ Resolves(w) /\ AcceptEffects(w)

\* C2: A lists B as a friend exactly when B lists A, in every reachable
\* state, and the friends collections change only in the commit of an accept batch.
FriendshipSymmetric == []Symmetric /\ [][EdgesOnlyByAcceptStep]_vars

\* C2 witness: an accept issued from a stale snapshot has made friends of two
\* accounts although the request was declined before it committed
StaleAcceptMadeFriends ==
    \E a \in Uids, b \in Uids : a # b /\ Friends(a, b) /\ clock = 1 /\ calls = {}
        /\ \E c \in Clients : friendRequests[c] # <<>>

\* C3: two accounts that hold edges to each other have no pending request
\* between them, in either friendRequests collection.
NoRequestBetweenFriends ==
    \A a \in Uids, b \in Uids : Friends(a, b) => (~Req(a, b) /\ ~Req(b, a))

AcceptedRequestGoneStep ==
    \A w \in calls : (w.action = "accept" /\ Resolves(w) /\ ~StoreUnchanged) =>
        /\ w.id \notin Ids(requestDocs'[w.userId])
        /\ w.id \in Ids(friendsDocs'[w.userId])
        /\ w.userId \in Ids(friendsDocs'[w.id])

\* C3, for the accepted request: the request an accept batch accepts does not survive the
\* batch: when the batch of accepter A for sender S has committed, A and S
\* hold the edges and A's friendRequests holds no request from S.
AcceptedRequestGone == [][AcceptedRequestGoneStep]_vars

\* C3 witness: two friends, the accepter's request gone, the request of the
\* opposite direction still pending
FriendsWithOppositeRequest ==
    \E a \in Uids, b \in Uids : Friends(a, b) /\ ~Req(a, b) /\ Req(b, a)

DeclineFrameStep ==
    \A w \in calls : (w.action \notin {"send", "accept"} /\ Resolves(w)) =>
        /\ friendsDocs' = friendsDocs
        /\ watchedDocs' = watchedDocs /\ wishlistDocs' = wishlistDocs
        /\ \A u \in Uids \ {w.userId} : requestDocs'[u] = requestDocs[u]
        /\ \/ requestDocs'[w.userId] = requestDocs[w.userId]
           \/ requestDocs'[w.userId] = {d \in requestDocs[w.userId] : d.id # w.id}

\* C4: a decline removes the one request keyed by the sender id from the
\* decliner's friendRequests and changes nothing else in the store: no friends
\* collection, no other request, no media list.
DeclineFrame == [][DeclineFrameStep]_vars

\* C4 witness: a request was declined: it is gone from the store, nobody
\* is a friend of anybody, and the decliner's snapshot still shows it
DeclineCommitted ==
    \E c \in Clients :
        /\ friendRequests[c] # <<>>
        /\ requestDocs[userId[c]] = {}
        /\ \A u \in Uids : friendsDocs[u] = {}
        /\ calls = {}

AtMostOneRequest ==
    \A r \in Uids, s \in Uids : Cardinality({d \in requestDocs[r] : d.id = s}) <= 1

SendUpsertStep ==
    \A w \in calls : (w.action = "send" /\ Resolves(w) /\ ~StoreUnchanged) =>
        /\ Cardinality({d \in requestDocs'[w.id] : d.id = w.userId}) = 1
        /\ \A old \in requestDocs[w.id] : \A new \in requestDocs'[w.id] :
              (old.id = w.userId /\ new.id = w.userId) =>
                  (new.displayName = old.displayName /\ new.addedAt # old.addedAt)
        /\ {d \in requestDocs'[w.id] : d.id # w.userId}
              = {d \in requestDocs[w.id] : d.id # w.userId}

MaxEntries == 6

\* limit(5) of the per-friend query
Limit == 5

\* a field that is missing: addedAt?.seconds is undefined
NoTimestamp == [seconds |-> -1, nanoseconds |-> -1]

\* Timestamp order, seconds then nanoseconds
TsLess(a, b) ==
    \/ a.seconds < b.seconds
    \/ a.seconds = b.seconds /\ a.nanoseconds < b.nanoseconds

\* b.addedAt?.seconds || 0
SortKey(e) == IF e.addedAt = NoTimestamp THEN 0 ELSE e.addedAt.seconds

\* query(collection, orderBy('addedAt', 'desc')): the docs, newest first
RECURSIVE OrderByAddedAtDesc(_)
OrderByAddedAtDesc(coll) ==
    IF coll = {} THEN <<>>
    ELSE LET newest == CHOOSE d \in coll : \A e \in coll : ~TsLess(d.addedAt, e.addedAt)
         IN  <<newest>> \o OrderByAddedAtDesc(coll \ {newest})

\* limit(n)
Take(s, n) == SubSeq(s, 1, IF Len(s) < n THEN Len(s) ELSE n)

\* the snapshot the per-friend query resolves to
QueryWatched(coll) == Take(OrderByAddedAtDesc(coll), Limit)

\* { ...doc.data(), id: doc.id, user: friend }
FeedEntry(d, friend) ==
    [id |-> d.id, media_type |-> d.media_type, addedAt |-> d.addedAt, user |-> friend]

\* snap.forEach(doc => feed.push(...))
PushAll(feed, snap, friend) == feed \o [i \in 1..Len(snap) |-> FeedEntry(snap[i], friend)]

\* Array.prototype.sort with (a, b) => key(b) - key(a): stable, descending by key
RECURSIVE InsertByKey(_, _)
InsertByKey(sorted, e) ==
    IF sorted = <<>> THEN <<e>>
    ELSE IF SortKey(sorted[Len(sorted)]) >= SortKey(e) THEN Append(sorted, e)
    ELSE Append(InsertByKey(SubSeq(sorted, 1, Len(sorted) - 1), e), sorted[Len(sorted)])

RECURSIVE SortFeed(_)
SortFeed(feed) ==
    IF feed = <<>> THEN <<>>
    ELSE InsertByKey(SortFeed(SubSeq(feed, 1, Len(feed) - 1)), feed[Len(feed)])

\* fetchFeeds up to its first await: the query for the first friend is sent
StartRun(c, fr) == [client |-> c, friends |-> fr, i |-> 1, feed |-> <<>>]

\* a loader that reads the caller's own watched list before its friends'
FeedLoaderEffectOwnFirst(c, fr) ==
    /\ isFeedLoading' = [isFeedLoading EXCEPT ![c] = TRUE]
    /\ feedRuns' = feedRuns \cup
          {StartRun(c, <<[id |-> userId[c], displayName |-> displayName[c]]>> \o fr)}
    /\ fetches' = fetches + 1
    /\ friendsFeed' = friendsFeed

\* the Friends Feed Loader effect, run for the friends array fr
FeedLoaderEffect(c, fr) ==
    IF Len(fr) = 0
    THEN /\ friendsFeed' = [friendsFeed EXCEPT ![c] = <<>>]
         /\ UNCHANGED <<isFeedLoading, feedRuns, fetches>>
    ELSE /\ isFeedLoading' = [isFeedLoading EXCEPT ![c] = TRUE]
         /\ feedRuns' = feedRuns \cup {StartRun(c, fr)}
         /\ fetches' = fetches + 1
         /\ friendsFeed' = friendsFeed

\* onSnapshot(collection(friendsPath)): setFriends, and the effect that
\* depends on friends runs with the new array
FriendsSnapshot(c) ==
    /\ userId[c] # Null
    /\ friendsPending[c]
    /\ friendsPending' = [friendsPending EXCEPT ![c] = FALSE]
    /\ friends' = [friends EXCEPT ![c] = SortById(friendsDocs[userId[c]])]
    /\ FeedLoaderEffect(c, friends'[c])
    /\ UNCHANGED <<feedFrame, userId, friendRequests, currentUser, screen>>

\* the awaited query of run r resolves: push its docs, then either send the
\* next friend's query or sort and publish
FetchResolve(r) ==
    /\ r \in feedRuns
    /\ LET friend == r.friends[r.i]
           feed == PushAll(r.feed, QueryWatched(watchedDocs[friend.id]), friend)
       IN  IF r.i < Len(r.friends)
           THEN /\ feedRuns' = (feedRuns \ {r}) \cup {[r EXCEPT !.i = r.i + 1, !.feed = feed]}
                /\ fetches' = fetches + 1
                /\ UNCHANGED <<friendsFeed, isFeedLoading>>
           ELSE /\ feedRuns' = feedRuns \ {r}
                /\ friendsFeed' = [friendsFeed EXCEPT ![r.client] = SortFeed(feed)]
                /\ isFeedLoading' = [isFeedLoading EXCEPT ![r.client] = FALSE]
                /\ fetches' = fetches
    /\ UNCHANGED <<feedFrame, userId, friendRequests, friends, friendsPending,
                   currentUser, screen>>

\* a fetchFeeds that publishes what it has when a query rejects
FetchRejectPublishesPartial(r) ==
    /\ r \in feedRuns
    /\ feedRuns' = feedRuns \ {r}
    /\ friendsFeed' = [friendsFeed EXCEPT ![r.client] = SortFeed(r.feed)]
    /\ UNCHANGED <<feedFrame, userId, friendRequests, friends,
                   isFeedLoading, friendsPending, fetches, currentUser, screen>>

\* the awaited query rejects: fetchFeeds ends there, nothing catches it
FetchReject(r) ==
    /\ r \in feedRuns
    /\ feedRuns' = feedRuns \ {r}
    /\ UNCHANGED <<feedFrame, userId, friendRequests, friends, friendsFeed,
                   isFeedLoading, friendsPending, fetches, currentUser, screen>>

\* handleLogout: signOut, and the auth observer's branch for no user; the
\* listeners are unsubscribed and the feed effect runs with the empty friends array
Logout(c) ==
    /\ screen[c] = "app"
    /\ currentUser' = [currentUser EXCEPT ![c] = Null]
    /\ userId' = [userId EXCEPT ![c] = Null]
    /\ screen' = [screen EXCEPT ![c] = "login"]
    /\ friends' = [friends EXCEPT ![c] = <<>>]
    /\ friendRequests' = [friendRequests EXCEPT ![c] = <<>>]
    /\ friendsPending' = [friendsPending EXCEPT ![c] = FALSE]
    /\ FeedLoaderEffect(c, <<>>)
    /\ UNCHANGED feedFrame

\* ---------------------------------------------------- feed specification
\* the k-th stored entry of account u: item k, added at tick k (account 2)
\* or at tick 2k + 1 (account 3)
StoredEntry(u, k) ==
    [id |-> String(k), media_type |-> IF k % 2 = 0 THEN "tv" ELSE "movie",
     addedAt |-> Timestamp(IF u = 2 THEN k ELSE 2 * k + 1)]

StoredEntries(u) ==
    {StoredEntry(u, k) : k \in 1..(IF u = 2 THEN MaxEntries ELSE MaxEntries \div 2)}

FriendDoc(u) == [id |-> u, displayName |-> NameOf(u)]

FeedInit ==
    /\ \E F \in SUBSET {2, 3} :
          friendsDocs = [u \in Uids |-> IF u = 1 THEN {FriendDoc(f) : f \in F}
                                        ELSE IF u \in F THEN {FriendDoc(1)} ELSE {}]
    /\ \E A \in SUBSET StoredEntries(2), B \in SUBSET StoredEntries(3) :
          watchedDocs = [u \in Uids |-> IF u = 2 THEN A ELSE IF u = 3 THEN B ELSE {}]
    /\ requestDocs = [u \in Uids |-> {}]
    /\ clock = 2 * MaxEntries
    /\ SignedIn(OnlyFirst)
    /\ Constructed
    /\ wishlistDocs = [u \in Uids |-> {}]
    /\ friendsPending = [c \in Clients |-> c = "c1"]

FeedNext ==
    \/ \E c \in Clients : FriendsSnapshot(c)
    \/ \E r \in feedRuns : FetchResolve(r)
    \/ \E r \in feedRuns : FetchReject(r)
    \/ \E c \in Clients : Logout(c)

SpecFeed == FeedInit /\ [][FeedNext]_vars

\* --------------------------------------------------------- feed properties
\* the min(Limit, n) most recent docs of a collection
MostRecent(coll) ==
    {d \in coll : Cardinality({e \in coll : TsLess(d.addedAt, e.addedAt)}) < Limit}

\* what the feed for the friends array fr is to contain
ReferenceEntries(fr) ==
    UNION {{FeedEntry(d, f) : d \in MostRecent(watchedDocs[f.id])} : f \in Range(fr)}

\* addedAt with a missing timestamp read as 0
AddedAt(e) == IF e.addedAt = NoTimestamp THEN [seconds |-> 0, nanoseconds |-> 0] ELSE e.addedAt

SortedByAddedAt(feed) ==
    \A i \in 1..Len(feed), j \in 1..Len(feed) :
        i < j => ~TsLess(AddedAt(feed[i]), AddedAt(feed[j]))

SortedBySeconds(feed) ==
    \A i \in 1..Len(feed), j \in 1..Len(feed) : i < j => SortKey(feed[i]) >= SortKey(feed[j])

HoldsEntries(feed, fr) ==
    /\ Range(feed) = ReferenceEntries(fr)
    /\ Len(feed) = Cardinality(ReferenceEntries(fr))

\* run r publishes in this step
Publishes(r) == r \in feedRuns /\ r \notin feedRuns' /\ ~isFeedLoading'[r.client]

PublishesReferenceStep ==
    \A r \in feedRuns : Publishes(r) =>
        /\ HoldsEntries(friendsFeed'[r.client], r.friends)
        /\ SortedByAddedAt(friendsFeed'[r.client])

\* C6: the feed a run of the loader publishes is the reference merge of its
\* friends: each friend's min(5, n) most recent watched entries, tagged with
\* the friend, the whole sorted by addedAt descending.
FeedIsReferenceMerge == [][PublishesReferenceStep]_vars

\* what the loader does publish: the reference entries, descending by the
\* whole seconds of addedAt only
PublishesBySecondsStep ==
    \A r \in feedRuns : Publishes(r) =>
        /\ HoldsEntries(friendsFeed'[r.client], r.friends)
        /\ SortedBySeconds(friendsFeed'[r.client])

FeedIsMergeBySeconds == [][PublishesBySecondsStep]_vars

\* the feed effect runs for client c in this step
EffectRuns(c) ==
    \/ friendsPending[c] /\ ~friendsPending'[c]
    \/ userId[c] # Null /\ userId'[c] = Null

EmptyFriendsStep ==
    \A c \in Clients : (EffectRuns(c) /\ friends'[c] = <<>>) =>
        /\ friendsFeed'[c] = <<>>
        /\ fetches' = fetches
        /\ feedRuns' = feedRuns

\* C7: a run of the feed effect with no friends sets the feed to the empty
\* sequence, starts no fetchFeeds and sends the store no query.
EmptyFriendsNoFetch == [][EmptyFriendsStep]_vars

\* C7 witness: the effect has run with no friends after a feed was loaded:
\* the client is signed out, its feed is empty, and queries were sent before
EmptyAfterLoaded ==
    \E c \in Clients :
        /\ c = "c1" /\ userId[c] = Null /\ friends[c] = <<>> /\ friendsFeed[c] = <<>>
        /\ fetches > 0 /\ feedRuns = {}

\* ============================================================ media lists
\* addToList / removeFromList executions in flight at once
MaxListCalls == 2

\* rows of searchResults: TMDb numbers movies and series separately
Catalog == {[id |-> 1, media_type |-> "movie"], [id |-> 2, media_type |-> "tv"]}

ListTypes == {"watched", "wishlist"}

\* a value the detail response does not carry
Undefined == -1

\* the catalogue's detail response for an item: a movie's runtime, a series'
\* episode_run_time, or neither
DetailOf(id, media_type) ==
    IF media_type = "tv" THEN [runtime |-> Undefined, episode_run_time |-> <<45>>]
    ELSE IF id = <<"1">> THEN [runtime |-> 120, episode_run_time |-> <<>>]
    ELSE [runtime |-> Undefined, episode_run_time |-> <<>>]

Truthy(x) == x # Undefined /\ x # 0

\* detailData.runtime || (detailData.episode_run_time ? detailData.episode_run_time[0] : 0) || 0
Runtime(detailData) ==
    IF Truthy(detailData.runtime) THEN detailData.runtime
    ELSE IF Len(detailData.episode_run_time) > 0 /\ Truthy(detailData.episode_run_time[1])
         THEN detailData.episode_run_time[1]
         ELSE 0

CouldNotAdd(listType) == <<"Could not add to ", listType, " list.">>

\* addToList(item, listType) up to its first await: the detail fetch is sent
AddToList(c, item, listType) ==
    /\ screen[c] = "app"
    /\ userId[c] # Null
    /\ Cardinality(listCalls) < MaxListCalls
    /\ listCalls' = listCalls \cup
          {[client |-> c, op |-> "add", stage |-> "fetch", userId |-> userId[c],
            listType |-> listType, id |-> String(item.id), media_type |-> item.media_type,
            runtime |-> 0]}
    /\ UNCHANGED <<watchedDocs, wishlistDocs, clock, error, listFrame>>

\* the detail fetch resolves: the runtime is taken and the setDoc is sent
DetailResolve(w) ==
    /\ w \in listCalls /\ w.op = "add" /\ w.stage = "fetch"
    /\ listCalls' = (listCalls \ {w}) \cup
          {[w EXCEPT !.stage = "setDoc", !.runtime = Runtime(DetailOf(w.id, w.media_type))]}
    /\ UNCHANGED <<watchedDocs, wishlistDocs, clock, error, listFrame>>

\* the fetch or the setDoc rejects: the catch sets the error
AddRejects(w) ==
    /\ w \in listCalls /\ w.op = "add"
    /\ listCalls' = listCalls \ {w}
    /\ error' = [error EXCEPT ![w.client] = CouldNotAdd(w.listType)]
    /\ UNCHANGED <<watchedDocs, wishlistDocs, clock, listFrame>>

ListDoc(w, ts) ==
    [id |-> w.id, media_type |-> w.media_type, runtime |-> w.runtime, addedAt |-> ts]

\* an add that appends a document under a fresh key
AddedDocsAppend(docs, w, ts) == [docs EXCEPT ![w.userId] = @ \cup {ListDoc(w, ts)}]

\* the store applies the setDoc of addToList to the list's collection
AddedDocs(docs, w, ts) == [docs EXCEPT ![w.userId] = SetDoc(@, ListDoc(w, ts))]

SetDocCommit(w) ==
    /\ w \in listCalls /\ w.op = "add" /\ w.stage = "setDoc"
    /\ clock < MaxClock
    /\ IF w.listType = "watched"
       THEN watchedDocs' = AddedDocs(watchedDocs, w, Now) /\ wishlistDocs' = wishlistDocs
       ELSE wishlistDocs' = AddedDocs(wishlistDocs, w, Now) /\ watchedDocs' = watchedDocs
    /\ clock' = clock + 1
    /\ listCalls' = listCalls \ {w}
    /\ UNCHANGED <<error, listFrame>>

\* removeFromList(itemId, listType): the deleteDoc is sent and not awaited
RemoveFromList(c, itemId, listType) ==
    /\ screen[c] = "app"
    /\ userId[c] # Null
    /\ Cardinality(listCalls) < MaxListCalls
    /\ listCalls' = listCalls \cup
          {[client |-> c, op |-> "remove", stage |-> "deleteDoc", userId |-> userId[c],
            listType |-> listType, id |-> itemId, media_type |-> "", runtime |-> 0]}
    /\ UNCHANGED <<watchedDocs, wishlistDocs, clock, error, listFrame>>

RemovedDocs(docs, w) == [docs EXCEPT ![w.userId] = DeleteDoc(@, w.id)]

DeleteDocCommit(w) ==
    /\ w \in listCalls /\ w.op = "remove"
    /\ IF w.listType = "watched"
       THEN watchedDocs' = RemovedDocs(watchedDocs, w) /\ wishlistDocs' = wishlistDocs
       ELSE wishlistDocs' = RemovedDocs(wishlistDocs, w) /\ watchedDocs' = watchedDocs
    /\ listCalls' = listCalls \ {w}
    /\ UNCHANGED <<clock, error, listFrame>>

\* the deleteDoc rejects: nobody awaits it
DeleteDocRejects(w) ==
    /\ w \in listCalls /\ w.op = "remove"
    /\ listCalls' = listCalls \ {w}
    /\ UNCHANGED <<watchedDocs, wishlistDocs, clock, error, listFrame>>

\* ---------------------------------------------------- list specification
\* account 1 has item 2 on its watched list from an earlier session
EarlierEntry ==
    [id |-> String(2), media_type |-> "movie", runtime |-> 0, addedAt |-> Timestamp(0)]

ListInit ==
    /\ friendsDocs = [u \in Uids |-> {}]
    /\ requestDocs = [u \in Uids |-> {}]
    /\ clock = 1
    /\ SignedIn(OnlyFirst)
    /\ Constructed
    /\ watchedDocs = [u \in Uids |-> IF u = 1 THEN {EarlierEntry} ELSE {}]
    /\ wishlistDocs = [u \in Uids |-> {}]
    /\ friendsPending = [c \in Clients |-> FALSE]

ListNext ==
    \/ \E c \in Clients, item \in Catalog, listType \in ListTypes : AddToList(c, item, listType)
    \/ \E w \in listCalls : DetailResolve(w)
    \/ \E w \in listCalls : AddRejects(w)
    \/ \E w \in listCalls : SetDocCommit(w)
    \/ \E c \in Clients, item \in Catalog, listType \in ListTypes :
          RemoveFromList(c, String(item.id), listType)
    \/ \E w \in listCalls : DeleteDocCommit(w)
    \/ \E w \in listCalls : DeleteDocRejects(w)

SpecList == ListInit /\ [][ListNext]_vars

\* --------------------------------------------------------- list properties
ListOf(docs, listType) == IF listType = "watched" THEN docs[1] ELSE docs[2]

UniqueIds(coll) == \A d \in coll, e \in coll : d.id = e.id => d = e

ItemOncePerList ==
    \A u \in Uids : UniqueIds(watchedDocs[u]) /\ UniqueIds(wishlistDocs[u])

\* the setDoc of the addToList execution w is applied in this step
AddCommits(w) ==
    /\ w \in listCalls /\ w.op = "add" /\ w.stage = "setDoc" /\ w \notin listCalls'
    /\ clock' # clock

AddOverwritesStep ==
    \A w \in listCalls : AddCommits(w) =>
        LET before == ListOf(<<watchedDocs, wishlistDocs>>, w.listType)[w.userId]
            after == ListOf(<<watchedDocs', wishlistDocs'>>, w.listType)[w.userId]
        IN  /\ Ids(after) = Ids(before) \cup {w.id}
            /\ Cardinality(after) = Cardinality(Ids(after))
            /\ w.id \in Ids(before) => Cardinality(after) = Cardinality(before)
            /\ \A d \in after : d.id = w.id => d.addedAt = Timestamp(clock)
            /\ {d \in after : d.id # w.id} = {d \in before : d.id # w.id}
            /\ IF w.listType = "watched" THEN wishlistDocs' = wishlistDocs
                                         ELSE watchedDocs' = watchedDocs
            /\ \A u \in Uids \ {w.userId} :
                  watchedDocs'[u] = watchedDocs[u] /\ wishlistDocs'[u] = wishlistDocs[u]

\* C10: an item id is in a list of an owner at most once; adding an item
\* that is in the list replaces its entry: the list is as long as before, the
\* entry's addedAt is the time of this add, and the owner's other list is unchanged.
AddIsOverwrite == []ItemOncePerList /\ [][AddOverwritesStep]_vars

\* C10 witness: series 2 was added to the watched list twice, over the entry
\* the list had under that id: one entry, with the time of the second add
EntryOverwritten ==
    /\ clock = 3
    /\ \E d \in watchedDocs[1] :
          /\ watchedDocs[1] = {d}
          /\ d.id = EarlierEntry.id /\ d.media_type = "tv" /\ d.addedAt = Timestamp(2)
    /\ wishlistDocs[1] = {}
    /\ listCalls = {}

\* ------------------------------------------------------------------ signup
\* what a user types into the display name and email inputs
DisplayNames(c) ==
    IF c = "c1" THEN {<<"a", "b">>, <<"b", "a", "b">>} ELSE {<<"a", "b">>, <<"B", "a", "b">>}
Emails == {"e2", "e3"}

MustBeThreeCharacters == <<"Display name must be at least 3 characters.">>
AlreadyTaken == <<"Display name is already taken.">>
\* err.message of a rejected store or auth call
ErrMessage == <<"err.message">>

\* a check that lets two-character names through
TooShortBelowTwo(name) == Len(name) < 2

\* displayName.length < 3
TooShort(name) == Len(name) < 3

\* the result of the query where("displayName_lower", "==", displayName.toLowerCase())
NameCheck(docs, name) == {p \in docs : p.displayName_lower = ToLowerCase(name)}

\* the toggle under the form: setScreen(isLogin ? 'signup' : 'login')
SetScreen(c) ==
    /\ screen[c] \in {"login", "signup"}
    /\ screen' = [screen EXCEPT ![c] = IF @ = "login" THEN "signup" ELSE "login"]
    /\ UNCHANGED <<authFrame, userId, displayName, friendsPending, error, accountVars,
                   currentUser, authEvent, observing, signups, isLoading>>

\* the display name input, rendered on the signup form only
SetDisplayName(c, name) ==
    /\ screen[c] = "signup"
    /\ displayName[c] # name
    /\ displayName' = [displayName EXCEPT ![c] = name]
    /\ UNCHANGED <<authFrame, userId, friendsPending, error, accountVars, authVars>>

\* handleSignup up to its first await; the button is disabled while isLoading
HandleSignup(c, email) ==
    /\ screen[c] = "signup"
    /\ ~isLoading[c]
    /\ IF TooShort(displayName[c])
       THEN /\ error' = [error EXCEPT ![c] = MustBeThreeCharacters]
            /\ UNCHANGED <<isLoading, signups>>
       ELSE /\ isLoading' = [isLoading EXCEPT ![c] = TRUE]
            /\ error' = [error EXCEPT ![c] = NoError]
            /\ signups' = [signups EXCEPT ![c] =
                  [pc |-> "nameCheck", displayName |-> displayName[c], email |-> email,
                   uid |-> Null]]
    /\ UNCHANGED <<authFrame, userId, displayName, friendsPending, accountVars,
                   currentUser, authEvent, observing, screen>>

\* the catch and the finally of handleSignup
SignupCaught(c, message) ==
    /\ error' = [error EXCEPT ![c] = message]
    /\ isLoading' = [isLoading EXCEPT ![c] = FALSE]
    /\ signups' = [signups EXCEPT ![c] = Idle]

\* the name query resolves: a match throws, no match sends createUser
NameCheckResolve(c) ==
    /\ signups[c].pc = "nameCheck"
    /\ IF NameCheck(profiles, signups[c].displayName) # {}
       THEN SignupCaught(c, AlreadyTaken)
       ELSE /\ signups' = [signups EXCEPT ![c].pc = "createUser"]
            /\ UNCHANGED <<error, isLoading>>
    /\ UNCHANGED <<authFrame, userId, displayName, friendsPending, accountVars,
                   currentUser, authEvent, observing, screen>>

\* createUserWithEmailAndPassword resolves: the Account exists, the client is
\* signed in to it, the auth observer is to be called, and the Profile setDoc is sent
CreateUserResolve(c, uid) ==
    /\ signups[c].pc = "createUser"
    /\ \A a \in authUsers : a.uid # uid /\ a.email # signups[c].email
    /\ authUsers' = authUsers \cup {[uid |-> uid, email |-> signups[c].email]}
    /\ currentUser' = [currentUser EXCEPT ![c] = uid]
    /\ authEvent' = [authEvent EXCEPT ![c] = TRUE]
    /\ signups' = [signups EXCEPT ![c].pc = "setDoc", ![c].uid = uid]
    /\ UNCHANGED <<authFrame, userId, displayName, friendsPending, error, profiles,
                   observing, isLoading, screen>>

\* the store applies the Profile setDoc, keyed by the Account id
ProfilesWritten(docs, uid, name) == SetDoc(docs, ProfileDoc(uid, name))

ProfileSetDocResolve(c) ==
    /\ signups[c].pc = "setDoc"
    /\ profiles' = ProfilesWritten(profiles, signups[c].uid, signups[c].displayName)
    /\ isLoading' = [isLoading EXCEPT ![c] = FALSE]
    /\ signups' = [signups EXCEPT ![c] = Idle]
    /\ UNCHANGED <<authFrame, userId, displayName, friendsPending, error, authUsers,
                   currentUser, authEvent, observing, screen>>

\* the awaited call of handleSignup rejects
SignupRejects(c) ==
    /\ signups[c].pc \in {"nameCheck", "createUser", "setDoc"}
    /\ SignupCaught(c, ErrMessage)
    /\ UNCHANGED <<authFrame, userId, displayName, friendsPending, accountVars,
                   currentUser, authEvent, observing, screen>>

\* the auth observer is called with a user: setUserId, the Profile getDoc is
\* sent, and the data listeners subscribe for the new userId
AuthObserverUser(c) ==
    /\ authEvent[c]
    /\ currentUser[c] # Null
    /\ authEvent' = [authEvent EXCEPT ![c] = FALSE]
    /\ userId' = [userId EXCEPT ![c] = currentUser[c]]
    /\ observing' = [observing EXCEPT ![c] = currentUser[c]]
    /\ friendsPending' = [friendsPending EXCEPT ![c] = TRUE]
    /\ UNCHANGED <<authFrame, displayName, error, accountVars, currentUser, signups,
                   isLoading, screen>>

\* the observer's getDoc resolves: the stored display name, if the Profile
\* exists, and the app screen
ObserverProfileResolve(c) ==
    /\ observing[c] # Null
    /\ observing' = [observing EXCEPT ![c] = Null]
    /\ LET userDoc == {p \in profiles : p.id = observing[c]}
       IN  IF userDoc # {}
           THEN displayName' = [displayName EXCEPT ![c] = (CHOOSE p \in userDoc : TRUE).displayName]
           ELSE displayName' = displayName
    /\ screen' = [screen EXCEPT ![c] = "app"]
    /\ UNCHANGED <<authFrame, userId, friendsPending, error, accountVars, currentUser,
                   authEvent, signups, isLoading>>

\* the observer's getDoc rejects: the callback ends there
ObserverProfileReject(c) ==
    /\ observing[c] # Null
    /\ observing' = [observing EXCEPT ![c] = Null]
    /\ UNCHANGED <<authFrame, userId, displayName, friendsPending, error, accountVars,
                   currentUser, authEvent, signups, isLoading, screen>>

\* -------------------------------------------------- signup specification
\* account 1 signed up earlier; both clients show the login form
SignupInit ==
    /\ friendsDocs = [u \in Uids |-> {}]
    /\ requestDocs = [u \in Uids |-> {}]
    /\ watchedDocs = [u \in Uids |-> {}]
    /\ wishlistDocs = [u \in Uids |-> {}]
    /\ clock = 1
    /\ authUsers = {[uid |-> 1, email |-> EmailOf(1)]}
    /\ profiles = {ProfileDoc(1, NameOf(1))}
    /\ currentUser = [c \in Clients |-> Null]
    /\ userId = [c \in Clients |-> Null]
    /\ displayName = [c \in Clients |-> <<>>]
    /\ screen = [c \in Clients |-> "login"]
    /\ Constructed
    /\ friendsPending = [c \in Clients |-> FALSE]

SignupNext ==
    \/ \E c \in Clients : SetScreen(c)
    \/ \E c \in Clients : \E name \in DisplayNames(c) : SetDisplayName(c, name)
    \/ \E c \in Clients, email \in Emails : HandleSignup(c, email)
    \/ \E c \in Clients : NameCheckResolve(c)
    \/ \E c \in Clients, uid \in Uids : CreateUserResolve(c, uid)
    \/ \E c \in Clients : ProfileSetDocResolve(c)
    \/ \E c \in Clients : SignupRejects(c)
    \/ \E c \in Clients : AuthObserverUser(c)
    \/ \E c \in Clients : ObserverProfileResolve(c)
    \/ \E c \in Clients : ObserverProfileReject(c)

SpecSignup == SignupInit /\ [][SignupNext]_vars

\* ------------------------------------------------------- signup properties
\* C8: no two Profile documents have the same displayName_lower, whatever
\* signups ran and however they interleaved.
DisplayNameLowerUnique ==
    \A p \in profiles, q \in profiles : p.displayName_lower = q.displayName_lower => p = q

\* no handleSignup execution is past the length check with a short name,
\* and no Profile has one
NoShortNameInFlight ==
    /\ \A c \in Clients :
          signups[c].pc \in {"nameCheck", "createUser", "setDoc"} =>
              Len(signups[c].displayName) >= 3
    /\ \A p \in profiles : Len(p.displayName) >= 3

\* a handleSignup call with a short name sets the error and nothing else
ShortNameStep ==
    \A c \in Clients, email \in Emails :
        (HandleSignup(c, email) /\ Len(displayName[c]) < 3) =>
            /\ error' = [error EXCEPT ![c] = MustBeThreeCharacters]
            /\ UNCHANGED <<friendsDocs, requestDocs, watchedDocs, wishlistDocs, clock,
                           profiles, authUsers, currentUser, authEvent, observing,
                           userId, signups, isLoading, screen, displayName>>

\* C9: handleSignup with a display name shorter than 3 characters sets the
\* validation error and does nothing else: no query, no Account, no Profile;
\* the store, the auth state and isLoading stay as they were.
ShortNameOnlyError == []NoShortNameInFlight /\ [][ShortNameStep]_vars

\* C9 witness: a signup with the two-character name was refused while the
\* client had nothing in flight
ShortNameRefused ==
    /\ displayName["c1"] = <<"a", "b">>
    /\ error["c1"] = MustBeThreeCharacters
    /\ signups["c1"] = Idle /\ ~isLoading["c1"]
    /\ Cardinality(authUsers) = 1 /\ Cardinality(profiles) = 1

\* ------------------------------------------------- session-end properties
\* C11: a client whose auth observer has processed the transition to no
\* account holds no friends, no friend requests and no feed, and that stays so
\* until a login, whatever was started during the session ends afterwards.
TornDownStaysEmpty ==
    \A c \in Clients : userId[c] = Null =>
        /\ friends[c] = <<>>
        /\ friendRequests[c] = <<>>
        /\ friendsFeed[c] = <<>>

\* C14: when no aggregation of a client is in flight, its feed is the one of
\* its latest friend set: it holds entries of current friends only, and none
\* when the friend set is empty.
FeedFollowsFriends ==
    \A c \in Clients : (\A r \in feedRuns : r.client # c) =>
        \A i \in 1..Len(friendsFeed[c]) : friendsFeed[c][i].user \in Range(friends[c])

\* the feed of a client changes only when the effect empties it for an empty
\* friends array, or when a run that has fetched for its last friend ends
\* and the feed is the sorted merge for all the friends of the run
AllOrNothingStep ==
    \A c \in Clients : friendsFeed'[c] # friendsFeed[c] =>
        \/ EffectRuns(c) /\ friends'[c] = <<>> /\ friendsFeed'[c] = <<>>
        \/ \E r \in feedRuns :
              /\ r.client = c /\ r.i = Len(r.friends)
              /\ feedRuns' = feedRuns \ {r}
              /\ HoldsEntries(friendsFeed'[c], r.friends)
              /\ SortedBySeconds(friendsFeed'[c])

\* C15: a run of fetchFeeds writes the feed once, after the fetch for every
\* friend has resolved and the merge is sorted; a run whose fetch is rejected
\* ends without writing, so the feed keeps its previous value.
PublishesAllOrNothing == [][AllOrNothingStep]_vars

\* C15 witness: a run for two friends was rejected at its second fetch, after
\* the first friend's entries were fetched: nothing of them is in the feed
AbortedAfterFirstFetch ==
    /\ Len(friends["c1"]) = 2
    /\ watchedDocs[friends["c1"][1].id] # {}
    /\ feedRuns = {} /\ fetches = 2
    /\ isFeedLoading["c1"] /\ friendsFeed["c1"] = <<>>

\* -------------------------------------------------- error-handling properties
\* C12: a rejected call of an operation ends with the error message of the
\* client set: sendFriendRequest and handleFriendRequest, the feed loader,
\* addToList, removeFromList and handleSignup.
FailuresSetErrorStep ==
    /\ \A w \in calls : RejectCall(w) => error'[w.client] # NoError
    /\ \A r \in feedRuns : FetchReject(r) => error'[r.client] # NoError
    /\ \A w \in listCalls : (AddRejects(w) \/ DeleteDocRejects(w)) => error'[w.client] # NoError
    /\ \A c \in Clients : SignupRejects(c) => error'[c] # NoError

FailuresSetError == [][FailuresSetErrorStep]_vars

\* ------------------------------------------------ ownership specification
\* One session, of account 1, using the social functions and the lists
\* together; account 3 sent its request earlier.
OwnershipInit ==
    /\ friendsDocs = [u \in Uids |-> {}]
    /\ requestDocs = [u \in Uids |-> IF u = 1 THEN EarlierRequests({3}) ELSE {}]
    /\ clock = 1
    /\ SignedIn(OnlyFirst)
    /\ Constructed
    /\ watchedDocs = [u \in Uids |-> IF u = 1 THEN {EarlierEntry} ELSE {}]
    /\ wishlistDocs = [u \in Uids |-> {}]
    /\ friendsPending = [c \in Clients |-> FALSE]

OwnershipNext ==
    \/ \E c \in Clients : SendFriendRequest(c, 3)
    \/ \E c \in Clients : \E request \in Range(friendRequests[c]) :
          \E action \in {"accept", "decline"} : HandleFriendRequest(c, request, action)
    \/ \E w \in calls : CommitSend(w)
    \/ \E w \in calls : CommitAccept(w)
    \/ \E w \in calls : CommitDecline(w)
    \/ \E w \in calls : RejectCall(w)
    \/ \E c \in Clients : RequestsSnapshot(c)
    \/ \E c \in Clients, listType \in ListTypes :
          AddToList(c, [id |-> 1, media_type |-> "movie"], listType)
    \/ \E w \in listCalls : DetailResolve(w)
    \/ \E w \in listCalls : AddRejects(w)
    \/ \E w \in listCalls : SetDocCommit(w)
    \/ \E c \in Clients : RemoveFromList(c, EarlierEntry.id, "watched")
    \/ \E w \in listCalls : DeleteDocCommit(w)
    \/ \E w \in listCalls : DeleteDocRejects(w)

SpecOwnership == OwnershipInit /\ [][OwnershipNext]_vars

\* --------------------------------------------------- ownership properties
\* the collections before and after differ at most in the document keyed id
OnlyDocChanged(before, after, id) ==
    {d \in after : d.id # id} = {d \in before : d.id # id}

\* a call is issued for the account the client is signed in to
IssuedForOwnAccount ==
    /\ \A w \in calls' \ calls : w.userId # Null /\ w.userId = currentUser[w.client]
    /\ \A w \in listCalls' \ listCalls : w.userId # Null /\ w.userId = currentUser[w.client]

\* the media lists and the friends collection of account u change only by a
\* call of u, but for the reciprocal edge of an accept batch
OwnListsAndFriends(u) ==
    /\ (watchedDocs'[u] # watchedDocs[u] \/ wishlistDocs'[u] # wishlistDocs[u]) =>
          \E w \in listCalls \ listCalls' : w.userId = u
    /\ friendsDocs'[u] # friendsDocs[u] =>
          \E w \in calls \ calls' : w.action = "accept" /\
              \/ w.userId = u
              \/ w.id = u /\ OnlyDocChanged(friendsDocs[u], friendsDocs'[u], w.userId)

OwnWritesOnlyStep ==
    /\ IssuedForOwnAccount
    /\ \A u \in Uids :
          /\ OwnListsAndFriends(u)
          /\ requestDocs'[u] # requestDocs[u] => \E w \in calls \ calls' : w.userId = u

\* C13: a session writes and deletes only under its own account's
\* watchedList, wishlist, friends and friendRequests, but for the accept batch's
\* edge in the sender's friends; no other operation writes into another
\* account's friendRequests.
OwnWritesOnly == [][OwnWritesOnlyStep]_vars

OwnWritesButSendStep ==
    /\ IssuedForOwnAccount
    /\ \A u \in Uids :
          /\ OwnListsAndFriends(u)
          /\ requestDocs'[u] # requestDocs[u] =>
                \E w \in calls \ calls' :
                    \/ w.action # "send" /\ w.userId = u
                    \/ w.action = "send" /\ w.id = u
                         /\ OnlyDocChanged(requestDocs[u], requestDocs'[u], w.userId)

\* C13, with the send: a session writes and deletes only under its own
\* account's collections, but for two writes: the accept batch's edge keyed by
\* the accepter in the sender's friends, and the request keyed by the sender
\* that sendFriendRequest sets in the recipient's friendRequests.
OwnWritesButSend == [][OwnWritesButSendStep]_vars

\* C13 witness: account 1 has written under its own account (the list entry,
\* its edge to 3) and under account 3 (the reciprocal edge, its request)
WroteOwnAndCounterpart ==
    /\ Friends(1, 3)
    /\ Req(3, 1)
    /\ \E d \in watchedDocs[1] : d.id = String(1)
    /\ calls = {} /\ listCalls = {}

\* -------------------------------------------------------------------- login
\* handleLogin up to its await; the button is disabled while isLoading
HandleLogin(c, email) ==
    /\ screen[c] = "login"
    /\ ~isLoading[c]
    /\ isLoading' = [isLoading EXCEPT ![c] = TRUE]
    /\ error' = [error EXCEPT ![c] = NoError]
    /\ signups' = [signups EXCEPT ![c] =
          [pc |-> "signIn", displayName |-> <<>>, email |-> email, uid |-> Null]]
    /\ UNCHANGED <<authFrame, userId, displayName, friendsPending, accountVars,
                   currentUser, authEvent, observing, screen>>

\* signInWithEmailAndPassword resolves for the Account of the email: the
\* client is signed in to it and the auth observer is to be called
SignInResolve(c) ==
    /\ signups[c].pc = "signIn"
    /\ \E a \in authUsers :
          /\ a.email = signups[c].email
          /\ currentUser' = [currentUser EXCEPT ![c] = a.uid]
    /\ authEvent' = [authEvent EXCEPT ![c] = TRUE]
    /\ isLoading' = [isLoading EXCEPT ![c] = FALSE]
    /\ signups' = [signups EXCEPT ![c] = Idle]
    /\ UNCHANGED <<authFrame, userId, displayName, friendsPending, error, accountVars,
                   observing, screen>>

\* signInWithEmailAndPassword rejects: the catch and the finally
SignInRejects(c) ==
    /\ signups[c].pc = "signIn"
    /\ SignupCaught(c, ErrMessage)
    /\ UNCHANGED <<authFrame, userId, displayName, friendsPending, accountVars,
                   currentUser, authEvent, observing, screen>>

\* ------------------------------------------------- session specification
\* One client that signs up, logs in and out, sends requests and accepts
\* them, one social call at a time; account 1 signed up earlier.
Browser == {"c1"}

\* the user waits for a social call to end before the next click
Quiet == calls = {}

SessionInit ==
    /\ friendsDocs = [u \in Uids |-> {}]
    /\ requestDocs = [u \in Uids |-> {}]
    /\ watchedDocs = [u \in Uids |-> {}]
    /\ wishlistDocs = [u \in Uids |-> {}]
    /\ clock = 1
    /\ authUsers = {[uid |-> 1, email |-> EmailOf(1)]}
    /\ profiles = {ProfileDoc(1, NameOf(1))}
    /\ currentUser = [c \in Clients |-> Null]
    /\ userId = [c \in Clients |-> Null]
    /\ displayName = [c \in Clients |-> <<>>]
    /\ screen = [c \in Clients |-> IF c \in Browser THEN "signup" ELSE "login"]
    /\ Constructed
    /\ friendsPending = [c \in Clients |-> FALSE]

SessionNext ==
    \/ \E c \in Browser : \E name \in DisplayNames(c) : SetDisplayName(c, name)
    \/ \E c \in Browser : HandleSignup(c, EmailOf(2))
    \/ \E c \in Browser : NameCheckResolve(c)
    \/ \E c \in Browser : CreateUserResolve(c, 2)
    \/ \E c \in Browser : ProfileSetDocResolve(c)
    \/ \E c \in Browser : SignupRejects(c)
    \/ \E c \in Browser, u \in {1, 2} : HandleLogin(c, EmailOf(u))
    \/ \E c \in Browser : SignInResolve(c)
    \/ \E c \in Browser : SignInRejects(c)
    \/ \E c \in Browser : AuthObserverUser(c)
    \/ \E c \in Browser : ObserverProfileResolve(c)
    \/ \E c \in Browser : ObserverProfileReject(c)
    \/ \E c \in Browser : Quiet /\ Logout(c)
    \/ \E c \in Browser : \E t \in Ids(profiles) : Quiet /\ SendFriendRequest(c, t)
    \/ \E c \in Browser : \E request \in Range(friendRequests[c]) :
          Quiet /\ HandleFriendRequest(c, request, "accept")
    \/ \E w \in calls : CommitSend(w)
    \/ \E w \in calls : CommitAccept(w)
    \/ \E c \in Browser : RequestsSnapshot(c)

SpecSession == SessionInit /\ [][SessionNext]_vars

\* ----------------------------------------------------- session properties
\* account id has a Profile, and its displayName is name
IsProfileName(id, name) == \E p \in profiles : p.id = id /\ p.displayName = name

\* C16: with no signup in flight, every FriendRequest carries the displayName
\* of its sender's Profile and every FriendEdge the displayName of the
\* Profile of the account it names.
NamesAreOfProfiles ==
    (\A c \in Clients : signups[c] = Idle) =>
        \A u \in Uids :
            /\ \A d \in requestDocs[u] : IsProfileName(d.id, d.displayName)
            /\ \A d \in friendsDocs[u] : IsProfileName(d.id, d.displayName)

====
